---- MODULE Spec2Model ----
(***************************************************************************)
(* Model of Sub_Auto.py: the interactive menu driver (main), the discovery *)
(* pipeline (find_subdomains), the screenshot step (screenshot_subdomains) *)
(* and the command runner (run_command).                                   *)
(*                                                                         *)
(* Text is a sequence of characters; a text file or a captured standard    *)
(* output is the sequence of its lines.  Standard error is a sequence of   *)
(* words.  The external tools are the environment: every invocation draws  *)
(* its outcome (binary missing, exit code, standard error, what it wrote)  *)
(* from a small set.                                                       *)
(***************************************************************************)
EXTENDS Integers, Sequences, FiniteSets, TLC

\* ---------------------------------------------------------------- bounds
\* Most lines a tool writes to its output file or to standard output.
MaxLines == 1
\* Most menu choices handled in one session.
MaxOps == 2

\* ------------------------------------------------------------ text basics
\* None, for the variables that hold text, a path or a list.
None == <<>>

\* A directory entry: absent, a text file with its lines, or a directory.
Absent == [kind |-> "absent", lines |-> <<>>]
File(text) == [kind |-> "file", lines |-> text]
Directory == [kind |-> "dir", lines |-> <<>>]

\* What a command wrote: nothing, or one text.
NoWrite == {}

Whitespace == {" "}

\* Code points of the characters that occur in hostnames (sort order of str).
Ord == [c \in {" ", "a", "b"} |-> CASE c = " " -> 32 [] c = "a" -> 97 [] c = "b" -> 98]

RECURSIVE LStrip(_)
LStrip(s) == IF s # <<>> /\ Head(s) \in Whitespace THEN LStrip(Tail(s)) ELSE s

RECURSIVE RStrip(_)
RStrip(s) ==
    IF s # <<>> /\ s[Len(s)] \in Whitespace THEN RStrip(SubSeq(s, 1, Len(s) - 1)) ELSE s

\* str.strip()
Strip(s) == RStrip(LStrip(s))

\* s < t for Python strings: lexicographic by code point.
RECURSIVE LexLess(_, _)
LexLess(s, t) ==
    IF t = <<>> THEN FALSE
    ELSE IF s = <<>> THEN TRUE
    ELSE IF Head(s) # Head(t) THEN Ord[Head(s)] < Ord[Head(t)]
    ELSE LexLess(Tail(s), Tail(t))

\* sorted(list(S))
RECURSIVE Sorted(_)
Sorted(S) ==
    IF S = {} THEN <<>>
    ELSE LET m == CHOOSE x \in S : \A y \in S \ {x} : LexLess(x, y)
         IN <<m>> \o Sorted(S \ {m})

Range(f) == {f[k] : k \in DOMAIN f}

\* The orders in which iterating a set may yield its members.
Orderings(S) == {f \in [1..Cardinality(S) -> S] : Range(f) = S}

\* str.lower() on one word, and on a sequence of words.
LowerWord(w) == CASE w = "Not" -> "not" [] w = "Found" -> "found" [] OTHER -> w
Lower(ws) == [k \in DOMAIN ws |-> LowerWord(ws[k])]

\* A match that looks for the single word "notfound".
NotFoundIn_OneWord(ws) == \E k \in 1..Len(ws) : Lower(ws)[k] = "notfound"

\* "not found" in stderr.lower()
NotFoundIn(ws) ==
    LET l == Lower(ws)
    IN \E k \in 1..(Len(l) - 1) : l[k] = "not" /\ l[k + 1] = "found"

\* ------------------------------------------------------------ input sets
\* What the user may type at the domain prompt.
DomainInputs == {<<>>, <<" ">>, <<"a">>, <<" ", "a", " ">>}

\* What the user may type at the menu prompt.
ChoiceInputs == {<<"1">>, <<" ", "1">>, <<"2">>, <<"2", " ">>, <<"3">>,
                 <<" ", "3", " ">>, <<"x">>, <<>>, <<"1", "2">>}

\* Raw lines a tool may emit.
RawLines == {<<" ">>, <<" ", "a">>, <<"b", " ">>}

RECURSIVE SeqsUpTo(_, _)
SeqsUpTo(S, n) ==
    IF n = 0 THEN {<<>>}
    ELSE LET shorter == SeqsUpTo(S, n - 1)
         IN shorter \cup {Append(t, x) : t \in {u \in shorter : Len(u) = n - 1}, x \in S}

\* Contents of a tool's output file or captured standard output.
Texts == SeqsUpTo(RawLines, MaxLines)

\* Standard error texts: the shell's message for a missing binary, a tool's
\* own messages, and the text of an exception.
ShellNotFound == <<"sh:", "not", "found">>
StderrTexts == {<<>>, <<"timeout">>, <<"resolver", "Not", "Found">>}
ExceptionText == <<"codec", "error">>
ExceptionName == <<"FileNotFoundError">>

\* Exit statuses: of the shell for a missing command (and of run_command for
\* a failed launch), and of run_command for any other exception.
CommandNotFoundStatus == 127
ExceptionStatus == 1

\* ------------------------------------------------------------- file names
Targets == {Strip(r) : r \in DomainInputs} \ {<<>>}

OutputFile(d, tool_name) == d \o <<"_", tool_name, ".txt">>
TempFile(d) == d \o <<"_all_unique_subdomains.txt">>
LiveFile(d) == d \o <<"_subdomains.txt">>
OutputDir(d) == <<"screenshots_">> \o d

ToolNames == <<"subfinder", "amass">>

\* What the user may type at the screenshot prompt.
ScreenshotInputs == {<<>>, <<" ">>, <<"p">>, <<" ", "p", " ">>}
                        \cup {LiveFile(d) : d \in Targets}

\* Paths the user names at the screenshot prompt.
TypedPaths == {Strip(r) : r \in ScreenshotInputs} \ {<<>>}

Paths == {OutputFile(d, ToolNames[k]) : d \in Targets, k \in 1..2}
            \cup {TempFile(d) : d \in Targets}
            \cup {LiveFile(d) : d \in Targets}
            \cup {OutputDir(d) : d \in Targets}
            \cup TypedPaths

VARIABLES
    pc,                                 \* position of the control thread
    target_domain,                      \* main: target_domain
    choice,                             \* main: choice
    live_subdomains_file,               \* main: live_subdomains_file
    ops,                                \* menu choices handled so far
    fs,                                 \* the working directory
    unique_subdomains,
    initial_subdomain_files,
    tool_idx,                           \* position in tools.items()
    returncode,
    stderr,
    binary_missing,                     \* the last -o command found no binary
    newly_found_subdomains,
    subdomains_to_process_recursively,
    i,
    input_file,
    completed,                          \* tools reported "completed" in this run
    log,                                \* commands run by the current operation
    last_msg                            \* the last outcome message printed

vars == <<pc, target_domain, choice, live_subdomains_file, ops, fs,
          unique_subdomains, initial_subdomain_files, tool_idx, returncode,
          stderr, binary_missing, newly_found_subdomains,
          subdomains_to_process_recursively, i, input_file, completed, log,
          last_msg>>

\* ------------------------------------------------------------ environment
\* Outcome of the shell when the command's binary is not installed: exit
\* status 127 and the shell's "not found" message, nothing written.
MissingOutcome ==
    [missing |-> TRUE, raised |-> "no", rc |-> CommandNotFoundStatus, stdout |-> <<>>,
     stderr |-> ShellNotFound, write |-> NoWrite]

\* subprocess.run itself raises: the shell cannot be launched, or anything
\* else goes wrong (for instance undecodable output).
RaisedOutcomes ==
    [missing : {FALSE}, raised : {"FileNotFoundError", "Exception"}, rc : {0},
     stdout : {<<>>}, stderr : {ExceptionText}, write : {NoWrite}]

\* A command that writes its result to a file (-o FILE).
FileOutcomes ==
    ({MissingOutcome} \cup RaisedOutcomes) \cup
    [missing : {FALSE}, raised : {"no"}, rc : {0, 1}, stdout : {<<>>},
     stderr : StderrTexts, write : {NoWrite} \cup {{t} : t \in Texts}]

\* A command whose standard output is captured and which writes no file.
StdoutOutcomes ==
    ({MissingOutcome} \cup RaisedOutcomes) \cup
    [missing : {FALSE}, raised : {"no"}, rc : {0}, stdout : Texts,
     stderr : {<<>>}, write : {NoWrite}] \cup
    [missing : {FALSE}, raised : {"no"}, rc : {1}, stdout : {<<>>, <<<<"b", " ">>>>},
     stderr : StderrTexts, write : {NoWrite}]

\* The screenshot tool: it may create its output directory.
DirOutcomes ==
    ({MissingOutcome} \cup RaisedOutcomes) \cup
    [missing : {FALSE}, raised : {"no"}, rc : {0, 1}, stdout : {<<>>},
     stderr : StderrTexts, write : {NoWrite, {<<>>}}]

\* The working directory after a command with outcome o that writes to path.
Written(dir, path, o) ==
    IF o.write = NoWrite THEN dir
    ELSE [dir EXCEPT ![path] = File(CHOOSE t \in o.write : TRUE)]

\* os.path.exists(path)
Exists(dir, path) == dir[path].kind # "absent"

Remove(dir, paths) == [p \in DOMAIN dir |-> IF p \in paths THEN Absent ELSE dir[p]]

\* ------------------------------------------------------------ run_command
run_command(o) ==
    IF o.raised = "FileNotFoundError"
    THEN [stdout |-> None, stderr |-> ExceptionName,
          returncode |-> CommandNotFoundStatus]
    ELSE IF o.raised = "Exception"
    THEN [stdout |-> None, stderr |-> o.stderr, returncode |-> ExceptionStatus]
    ELSE IF o.rc # 0 /\ NotFoundIn(o.stderr)
    THEN [stdout |-> None, stderr |-> o.stderr, returncode |-> o.rc]
    ELSE [stdout |-> o.stdout, stderr |-> o.stderr, returncode |-> o.rc]

\* --------------------------------------------------------------- initial
NoLocals ==
    /\ unique_subdomains' = {}
    /\ initial_subdomain_files' = <<>>
    /\ tool_idx' = 0
    /\ returncode' = None
    /\ stderr' = None
    /\ newly_found_subdomains' = {}
    /\ subdomains_to_process_recursively' = <<>>
    /\ i' = 0

Init ==
    /\ pc = "AwaitingDomain"
    /\ target_domain = None
    /\ choice = None
    /\ live_subdomains_file = None
    /\ ops = 0
    /\ fs = [p \in Paths |-> Absent]
    /\ unique_subdomains = {}
    /\ initial_subdomain_files = <<>>
    /\ tool_idx = 0
    /\ returncode = None
    /\ stderr = None
    /\ binary_missing = FALSE
    /\ newly_found_subdomains = {}
    /\ subdomains_to_process_recursively = <<>>
    /\ i = 0
    /\ input_file = None
    /\ completed = {}
    /\ log = <<>>
    /\ last_msg = "welcome"

\* ------------------------------------------------------------------ main
\* main, lines 170-173: an empty domain ends the program.
EmptyDomain ==
    /\ pc = "AwaitingDomain"
    /\ \E raw \in DomainInputs :
        /\ Strip(raw) = <<>>
        /\ target_domain' = Strip(raw)
    /\ pc' = "Exited"
    /\ last_msg' = "domain_empty"
    /\ UNCHANGED <<choice, live_subdomains_file, ops, fs, unique_subdomains,
                   initial_subdomain_files, tool_idx, returncode, stderr,
                   binary_missing, newly_found_subdomains,
                   subdomains_to_process_recursively, i, input_file, completed, log>>

\* main, lines 170-175: a non-empty domain enters the menu loop.
EnterDomain ==
    /\ pc = "AwaitingDomain"
    /\ \E raw \in DomainInputs :
        /\ Strip(raw) # <<>>
        /\ target_domain' = Strip(raw)
    /\ pc' = "MenuLoop"
    /\ UNCHANGED <<choice, live_subdomains_file, ops, fs, unique_subdomains,
                   initial_subdomain_files, tool_idx, returncode, stderr,
                   binary_missing, newly_found_subdomains,
                   subdomains_to_process_recursively, i, input_file, completed, log,
                   last_msg>>

\* main, lines 181-184, and find_subdomains, lines 35-43.
ChooseFind ==
    /\ pc = "MenuLoop"
    /\ ops < MaxOps
    /\ \E raw \in ChoiceInputs :
        /\ Strip(raw) = <<"1">>
        /\ choice' = Strip(raw)
    /\ ops' = ops + 1
    /\ pc' = "InitialRun"
    /\ unique_subdomains' = {}
    /\ initial_subdomain_files' = <<>>
    /\ tool_idx' = 1
    /\ completed' = {}
    /\ binary_missing' = FALSE
    /\ input_file' = None
    /\ log' = <<>>
    /\ last_msg' = "discovery_started"
    /\ UNCHANGED <<target_domain, live_subdomains_file, fs, returncode, stderr,
                   newly_found_subdomains, subdomains_to_process_recursively, i>>

\* main, lines 181-190: choice 2 calls screenshot_subdomains.
ChooseScreenshot ==
    /\ pc = "MenuLoop"
    /\ ops < MaxOps
    /\ \E raw \in ChoiceInputs :
        /\ Strip(raw) = <<"2">>
        /\ choice' = Strip(raw)
    /\ ops' = ops + 1
    /\ pc' = "Screenshot"
    /\ completed' = {}
    /\ binary_missing' = FALSE
    /\ input_file' = None
    /\ log' = <<>>
    /\ last_msg' = "input_file_prompt"
    /\ UNCHANGED <<target_domain, live_subdomains_file, fs, unique_subdomains,
                   initial_subdomain_files, tool_idx, returncode, stderr,
                   newly_found_subdomains, subdomains_to_process_recursively, i>>

\* main, lines 192-194: choice 3 leaves the loop.
ChooseExit ==
    /\ pc = "MenuLoop"
    /\ \E raw \in ChoiceInputs :
        /\ Strip(raw) = <<"3">>
        /\ choice' = Strip(raw)
    /\ pc' = "Exited"
    /\ last_msg' = "goodbye"
    /\ UNCHANGED <<target_domain, live_subdomains_file, ops, fs, unique_subdomains,
                   initial_subdomain_files, tool_idx, returncode, stderr,
                   binary_missing, newly_found_subdomains,
                   subdomains_to_process_recursively, i, input_file, completed, log>>

\* An invalid choice that leaves the loop.
InvalidChoice_Exits ==
    /\ pc = "MenuLoop"
    /\ ops < MaxOps
    /\ \E raw \in ChoiceInputs :
        /\ Strip(raw) \notin {<<"1">>, <<"2">>, <<"3">>}
        /\ choice' = Strip(raw)
    /\ ops' = ops + 1
    /\ pc' = "Exited"
    /\ last_msg' = "invalid_choice"
    /\ UNCHANGED <<target_domain, live_subdomains_file, fs, unique_subdomains,
                   initial_subdomain_files, tool_idx, returncode, stderr,
                   binary_missing, newly_found_subdomains,
                   subdomains_to_process_recursively, i, input_file, completed, log>>

\* main, lines 195-196: any other choice is reported and the loop repeats.
InvalidChoice ==
    /\ pc = "MenuLoop"
    /\ ops < MaxOps
    /\ \E raw \in ChoiceInputs :
        /\ Strip(raw) \notin {<<"1">>, <<"2">>, <<"3">>}
        /\ choice' = Strip(raw)
    /\ ops' = ops + 1
    /\ pc' = "MenuLoop"
    /\ last_msg' = "invalid_choice"
    /\ UNCHANGED <<target_domain, live_subdomains_file, fs, unique_subdomains,
                   initial_subdomain_files, tool_idx, returncode, stderr,
                   binary_missing, newly_found_subdomains,
                   subdomains_to_process_recursively, i, input_file, completed, log>>

\* ------------------------------------------------------- find_subdomains
\* find_subdomains returns result to main, lines 184-188.
ReturnToMain(result) ==
    /\ pc' = "MenuLoop"
    /\ live_subdomains_file' = result
    /\ last_msg' = IF result # None THEN "find_completed" ELSE "find_failed"
    /\ NoLocals

\* Folding a file without trimming its lines.
FoldLines_Untrimmed(set, text) == set \cup Range(text)

\* Lines 54-56: every line of the file, trimmed, joins the set.
FoldLines(set, text) == set \cup {Strip(line) : line \in Range(text)}

\* A recursion loop that skips nothing.
IsSkipped_Never(sub, d) == FALSE

\* Line 75: the member of the list that is not expanded.
IsSkipped(sub, d) == sub = d

\* A cleanup that forgets the temporary full-set file.
CleanupAfterSuccess_KeepsTemp(dir, files, temp) == Remove(dir, Range(files))

\* Lines 117-121: cleanup after a successful probe.
CleanupAfterSuccess(dir, files, temp) == Remove(dir, Range(files) \cup {temp})

\* A cleanup that forgets the per-tool files.
CleanupAfterFailure_KeepsToolFiles(dir, files, temp) == Remove(dir, {temp})

\* Lines 130-134: cleanup after a failed probe.
CleanupAfterFailure(dir, files, temp) == Remove(dir, Range(files) \cup {temp})

\* A check that never finds the input file missing.
InputMissing_Never(dir, path) == FALSE

\* Line 146: the input file of the screenshot step does not exist.
InputMissing(dir, path) == ~Exists(dir, path)

\* Lines 46-50: one enumeration tool is run with its output file.
InitialRun ==
    /\ pc = "InitialRun"
    /\ LET tool_name == ToolNames[tool_idx]
           output_file == OutputFile(target_domain, tool_name)
       IN \E o \in FileOutcomes :
            LET r == run_command(o)
            IN /\ initial_subdomain_files' = Append(initial_subdomain_files, output_file)
               /\ fs' = Written(fs, output_file, o)
               /\ returncode' = r.returncode
               /\ stderr' = r.stderr
               /\ binary_missing' = o.missing
               /\ log' = Append(log, [tool |-> tool_name, d |-> target_domain,
                                      out |-> output_file])
    /\ pc' = "InitialResult"
    /\ UNCHANGED <<target_domain, choice, live_subdomains_file, ops,
                   unique_subdomains, tool_idx, newly_found_subdomains,
                   subdomains_to_process_recursively, i, input_file, completed,
                   last_msg>>

\* Lines 52-60: the tool's file is folded into the set, or the failure is
\* reported; a "not found" in standard error ends the function.
InitialResult ==
    /\ pc = "InitialResult"
    /\ LET tool_name == ToolNames[tool_idx]
           output_file == OutputFile(target_domain, tool_name)
           next_pc == IF tool_idx < Len(ToolNames) THEN "InitialRun" ELSE "AddTarget"
       IN IF returncode = 0 /\ Exists(fs, output_file)
          THEN /\ unique_subdomains' = FoldLines(unique_subdomains, fs[output_file].lines)
               /\ completed' = completed \cup {tool_name}
               /\ tool_idx' = tool_idx + 1
               /\ pc' = next_pc
               /\ UNCHANGED <<live_subdomains_file, initial_subdomain_files,
                              returncode, stderr, newly_found_subdomains,
                              subdomains_to_process_recursively, i, last_msg>>
          ELSE IF NotFoundIn(stderr)
          THEN /\ ReturnToMain(None)
               /\ UNCHANGED completed
          ELSE /\ tool_idx' = tool_idx + 1
               /\ pc' = next_pc
               /\ UNCHANGED <<live_subdomains_file, unique_subdomains,
                              initial_subdomain_files, returncode, stderr,
                              newly_found_subdomains,
                              subdomains_to_process_recursively, i, completed,
                              last_msg>>
    /\ UNCHANGED <<target_domain, choice, ops, fs, binary_missing, input_file, log>>

\* Lines 63-71: the target joins the set and the recursion list is a copy
\* of the set, in whatever order the set yields its members.
AddTarget ==
    /\ pc = "AddTarget"
    /\ unique_subdomains' = unique_subdomains \cup {target_domain}
    /\ newly_found_subdomains' = {}
    /\ subdomains_to_process_recursively' \in Orderings(unique_subdomains')
    /\ i' = 1
    /\ returncode' = None
    /\ stderr' = None
    /\ pc' = "Recursive"
    /\ UNCHANGED <<target_domain, choice, live_subdomains_file, ops, fs,
                   initial_subdomain_files, tool_idx, binary_missing, input_file,
                   completed, log, last_msg>>

\* Non-blank trimmed lines of a captured standard output, lines 86-89.
FoundIn(r) ==
    IF r.returncode = 0 /\ r.stdout # None
    THEN {Strip(line) : line \in Range(r.stdout)} \ {<<>>}
    ELSE {}

\* Lines 73-76: the target domain itself is skipped.
RecursiveSkip ==
    /\ pc = "Recursive"
    /\ i <= Len(subdomains_to_process_recursively)
    /\ IsSkipped(subdomains_to_process_recursively[i], target_domain)
    /\ i' = i + 1
    /\ UNCHANGED <<pc, target_domain, choice, live_subdomains_file, ops, fs,
                   unique_subdomains, initial_subdomain_files, tool_idx,
                   returncode, stderr, binary_missing, newly_found_subdomains,
                   subdomains_to_process_recursively, input_file, completed, log,
                   last_msg>>

\* Lines 73-89: subfinder is run on the next member of the list.
RecursiveSubfinder ==
    /\ pc = "Recursive"
    /\ i <= Len(subdomains_to_process_recursively)
    /\ LET sub == subdomains_to_process_recursively[i]
       IN /\ ~IsSkipped(sub, target_domain)
          /\ \E o \in StdoutOutcomes :
                newly_found_subdomains' =
                    newly_found_subdomains \cup FoundIn(run_command(o))
          /\ log' = Append(log, [tool |-> "subfinder", d |-> sub, out |-> None])
    /\ pc' = "RecursiveAmass"
    /\ UNCHANGED <<target_domain, choice, live_subdomains_file, ops, fs,
                   unique_subdomains, initial_subdomain_files, tool_idx,
                   returncode, stderr, binary_missing,
                   subdomains_to_process_recursively, i, input_file, completed,
                   last_msg>>

\* Lines 91-96: amass is run on the same member; the loop moves on.
RecursiveAmass ==
    /\ pc = "RecursiveAmass"
    /\ LET sub == subdomains_to_process_recursively[i]
       IN /\ \E o \in StdoutOutcomes :
                newly_found_subdomains' =
                    newly_found_subdomains \cup FoundIn(run_command(o))
          /\ log' = Append(log, [tool |-> "amass", d |-> sub, out |-> None])
    /\ i' = i + 1
    /\ pc' = "Recursive"
    /\ UNCHANGED <<target_domain, choice, live_subdomains_file, ops, fs,
                   unique_subdomains, initial_subdomain_files, tool_idx,
                   returncode, stderr, binary_missing,
                   subdomains_to_process_recursively, input_file, completed,
                   last_msg>>

\* Lines 98-105: the newly found hosts join the set and the set is written,
\* sorted, one member per line, to the temporary file.
WriteTemp ==
    /\ pc = "Recursive"
    /\ i > Len(subdomains_to_process_recursively)
    /\ unique_subdomains' = unique_subdomains \cup newly_found_subdomains
    /\ fs' = [fs EXCEPT ![TempFile(target_domain)] = File(Sorted(unique_subdomains'))]
    /\ pc' = "ProbeRun"
    /\ UNCHANGED <<target_domain, choice, live_subdomains_file, ops,
                   initial_subdomain_files, tool_idx, returncode, stderr,
                   binary_missing, newly_found_subdomains,
                   subdomains_to_process_recursively, i, input_file, completed, log,
                   last_msg>>

\* What the probe may write to the live file: none or all of its input.
ProbeOutcomes(temp) ==
    ({MissingOutcome} \cup RaisedOutcomes) \cup
    [missing : {FALSE}, raised : {"no"}, rc : {0, 1}, stdout : {<<>>},
     stderr : StderrTexts, write : {NoWrite, {<<>>}, {temp}}]

\* Lines 109-112: the temporary file is piped through the probe.
ProbeRun ==
    /\ pc = "ProbeRun"
    /\ LET temp_subdomain_file == TempFile(target_domain)
           live_file == LiveFile(target_domain)
       IN \E o \in ProbeOutcomes(fs[temp_subdomain_file].lines) :
            LET r == run_command(o)
            IN /\ fs' = Written(fs, live_file, o)
               /\ returncode' = r.returncode
               /\ stderr' = r.stderr
               /\ binary_missing' = o.missing
               /\ log' = Append(log, [tool |-> "httpx", d |-> temp_subdomain_file,
                                      out |-> live_file])
    /\ pc' = "ProbeResult"
    /\ UNCHANGED <<target_domain, choice, live_subdomains_file, ops,
                   unique_subdomains, initial_subdomain_files, tool_idx,
                   newly_found_subdomains, subdomains_to_process_recursively, i,
                   input_file, completed, last_msg>>

\* Lines 114-135: both branches remove the intermediate files; the live
\* file's path is returned only when the probe exited zero and it exists.
ProbeResult ==
    /\ pc = "ProbeResult"
    /\ LET live_file == LiveFile(target_domain)
           temp_subdomain_file == TempFile(target_domain)
       IN IF returncode = 0 /\ Exists(fs, live_file)
          THEN /\ fs' = CleanupAfterSuccess(fs, initial_subdomain_files,
                                            temp_subdomain_file)
               /\ ReturnToMain(live_file)
          ELSE /\ fs' = CleanupAfterFailure(fs, initial_subdomain_files,
                                            temp_subdomain_file)
               /\ ReturnToMain(None)
    /\ UNCHANGED <<target_domain, choice, ops, binary_missing, input_file,
                   completed, log>>

\* -------------------------------------------------- screenshot_subdomains
\* Lines 141-148, and main line 191 when the input file is missing.
ScreenshotInput ==
    /\ pc = "Screenshot"
    /\ \E raw \in ScreenshotInputs :
        LET typed == Strip(raw)
            path == IF typed = <<>> THEN LiveFile(target_domain) ELSE typed
        IN /\ input_file' = path
           /\ IF InputMissing(fs, path)
              THEN /\ pc' = "MenuLoop"
                   /\ last_msg' = "input_not_found"
              ELSE /\ pc' = "Eyewitness"
                   /\ last_msg' = "screenshots_started"
    /\ UNCHANGED <<target_domain, choice, live_subdomains_file, ops, fs,
                   unique_subdomains, initial_subdomain_files, tool_idx,
                   returncode, stderr, binary_missing, newly_found_subdomains,
                   subdomains_to_process_recursively, i, completed, log>>

\* Lines 150-162, and main line 191: the screenshot tool is run.
Eyewitness ==
    /\ pc = "Eyewitness"
    /\ LET output_dir == OutputDir(target_domain)
       IN \E o \in DirOutcomes :
            LET r == run_command(o)
            IN /\ fs' = IF o.write = NoWrite THEN fs
                         ELSE [fs EXCEPT ![output_dir] = Directory]
               /\ last_msg' = IF r.returncode = 0 THEN "screenshots_done"
                                ELSE "screenshots_failed"
               /\ log' = Append(log, [tool |-> "eyewitness", d |-> input_file,
                                      out |-> output_dir])
    /\ pc' = "MenuLoop"
    /\ UNCHANGED <<target_domain, choice, live_subdomains_file, ops,
                   unique_subdomains, initial_subdomain_files, tool_idx,
                   returncode, stderr, binary_missing, newly_found_subdomains,
                   subdomains_to_process_recursively, i, input_file, completed>>

\* ------------------------------------------------------------------ spec
Next ==
    \/ EmptyDomain
    \/ EnterDomain
    \/ ChooseFind
    \/ ChooseScreenshot
    \/ ChooseExit
    \/ InvalidChoice
    \/ InitialRun
    \/ InitialResult
    \/ AddTarget
    \/ RecursiveSkip
    \/ RecursiveSubfinder
    \/ RecursiveAmass
    \/ WriteTemp
    \/ ProbeRun
    \/ ProbeResult
    \/ ScreenshotInput
    \/ Eyewitness

Spec == Init /\ [][Next]_vars

\* ---------------------------------------------------------------- claims
SubfinderFile == OutputFile(target_domain, "subfinder")
AmassFile == OutputFile(target_domain, "amass")
Intermediates == {SubfinderFile, AmassFile, TempFile(target_domain)}

\* The text s is line with the whitespace at both ends removed, said without
\* the model's Strip: a slice of line that neither starts nor ends with
\* whitespace and has only whitespace on either side.
IsTrimOf(s, line) ==
    \E j \in 1..(Len(line) + 1), k \in 0..Len(line) :
        /\ s = SubSeq(line, j, k)
        /\ \A m \in 1..(j - 1) : line[m] \in Whitespace
        /\ \A m \in (k + 1)..Len(line) : line[m] \in Whitespace
        /\ (s # <<>> => s[1] \notin Whitespace /\ s[Len(s)] \notin Whitespace)

TrimmedLinesOf(path) ==
    {s \in UNION {{SubSeq(line, j, k) : j \in 1..(Len(line) + 1), k \in 0..Len(line)} :
                     line \in Range(fs[path].lines)} :
        \E line \in Range(fs[path].lines) : IsTrimOf(s, line)}

\* C1: once the initial discovery is over and before the recursion merges
\* anything, the target domain is in the set; and when both tools exited zero
\* with their files present, the set is exactly the trimmed lines of the two
\* files plus the target domain.
C1_InitialUnion ==
    pc \in {"Recursive", "RecursiveAmass"} =>
        /\ target_domain \in unique_subdomains
        /\ completed = {"subfinder", "amass"} =>
              unique_subdomains =
                  TrimmedLinesOf(SubfinderFile) \cup TrimmedLinesOf(AmassFile)
                      \cup {target_domain}

\* Both tools succeeded, reported the same host with different spacing, and
\* neither reported the target domain.
C1_Witness ==
    /\ pc = "Recursive"
    /\ completed = {"subfinder", "amass"}
    /\ <<"b", " ">> \in Range(fs[SubfinderFile].lines)
    /\ <<"b", " ">> \in Range(fs[AmassFile].lines)
    /\ <<" ", "a">> \notin Range(fs[SubfinderFile].lines) \cup Range(fs[AmassFile].lines)
    /\ unique_subdomains = {<<"b">>, target_domain}

\* C2: when an enumeration tool of the initial discovery has no binary, the
\* function returns None at once: the step after the failed command is the
\* return, it runs no further command and leaves every file as it was; and
\* up to that point the run has run nothing but the initial enumeration
\* commands, so the live file was not written by it.
C2_MissingToolAborts ==
    [][/\ (pc \in {"InitialRun", "InitialResult"} =>
              \A k \in DOMAIN log :
                  /\ log[k].tool = ToolNames[k]
                  /\ log[k].out = OutputFile(target_domain, ToolNames[k]))
       /\ (pc = "InitialResult" /\ binary_missing =>
              /\ pc' = "MenuLoop"
              /\ live_subdomains_file' = None
              /\ log' = log
              /\ fs' = fs)]_vars

\* amass had no binary after subfinder had succeeded; the run has returned.
C2_Witness ==
    /\ pc = "MenuLoop"
    /\ binary_missing
    /\ last_msg = "find_failed"
    /\ completed = {"subfinder"}
    /\ Len(log) = 2
    /\ live_subdomains_file = None

\* C3: the temporary full-set file, once written, lists the members of the
\* set in strictly increasing lexicographic order (so without duplicates),
\* one per line, and none of its lines is blank.
C3_TempFileSortedNoBlank ==
    pc = "ProbeRun" =>
        LET t == fs[TempFile(target_domain)].lines
        IN /\ Range(t) = unique_subdomains
           /\ \A j, k \in DOMAIN t : j < k => LexLess(t[j], t[k])
           /\ \A k \in DOMAIN t : t[k] # <<>>

\* C4: when the probe exited zero and the live file exists, the function
\* returns the live file's path, the three intermediate files are gone and
\* the live file is still there, untouched.
C4_SuccessCleansUp ==
    [][pc = "ProbeResult" /\ returncode = 0 /\ Exists(fs, LiveFile(target_domain)) =>
          /\ pc' = "MenuLoop"
          /\ \A p \in Intermediates : ~Exists(fs', p)
          /\ Exists(fs', LiveFile(target_domain))
          /\ fs'[LiveFile(target_domain)] = fs[LiveFile(target_domain)]
          /\ live_subdomains_file' = LiveFile(target_domain)]_vars

\* A run has returned the live file's path and the live file has content.
C4_Witness ==
    /\ pc = "MenuLoop"
    /\ last_msg = "find_completed"
    /\ live_subdomains_file = LiveFile(target_domain)
    /\ fs[LiveFile(target_domain)].lines # <<>>
    /\ completed = {"subfinder", "amass"}

\* C5 as stated: when the probe failed, the function returns None, the three
\* intermediate files are gone and the live file does not exist.
C5_FailureLeavesNoLiveFile ==
    [][pc = "ProbeResult" /\ ~(returncode = 0 /\ Exists(fs, LiveFile(target_domain))) =>
          /\ pc' = "MenuLoop"
          /\ live_subdomains_file' = None
          /\ \A p \in Intermediates : ~Exists(fs', p)
          /\ ~Exists(fs', LiveFile(target_domain))]_vars

\* C5 amended: when the probe failed, the function returns None, the three
\* intermediate files are gone, and the function itself neither creates nor
\* removes nor rewrites the live file: it is left as it was when the probe
\* ended.
C5_FailureCleansUp ==
    [][pc = "ProbeResult" /\ ~(returncode = 0 /\ Exists(fs, LiveFile(target_domain))) =>
          /\ pc' = "MenuLoop"
          /\ live_subdomains_file' = None
          /\ \A p \in Intermediates : ~Exists(fs', p)
          /\ fs'[LiveFile(target_domain)] = fs[LiveFile(target_domain)]]_vars

\* A run whose probe failed has returned None, after both tools had written
\* their files, and a live file is on disk all the same.
C5_Witness ==
    /\ pc = "MenuLoop"
    /\ last_msg = "find_failed"
    /\ live_subdomains_file = None
    /\ Len(log) > 2
    /\ log[Len(log)].tool = "httpx"
    /\ completed = {"subfinder", "amass"}
    /\ Exists(fs, LiveFile(target_domain))

\* The commands of the recursion: those that write no file.
ExpansionRuns(tool_name, host) ==
    {k \in DOMAIN log : log[k] = [tool |-> tool_name, d |-> host, out |-> None]}

\* C6: throughout the recursion the set still is the set of the initial
\* discovery; every expansion command has a member of it other than the
\* target domain as its target, and no tool is run twice on one host; when
\* the loop is over each tool has been run exactly once on every such member.
C6_OneLevelExpansion ==
    pc \in {"Recursive", "RecursiveAmass"} =>
        LET hosts == unique_subdomains \ {target_domain}
        IN /\ \A k \in DOMAIN log :
                 log[k].out = None =>
                     /\ log[k].d \in hosts
                     /\ log[k].d # target_domain
                     /\ Cardinality(ExpansionRuns(log[k].tool, log[k].d)) = 1
           /\ (pc = "Recursive" /\ i > Len(subdomains_to_process_recursively) =>
                 \A h \in hosts, k \in DOMAIN ToolNames :
                     Cardinality(ExpansionRuns(ToolNames[k], h)) = 1)

\* The loop is over, one host was expanded by both tools and the expansion
\* found a host that the initial discovery had not: that host was not expanded.
C6_Witness ==
    /\ pc = "Recursive"
    /\ i > Len(subdomains_to_process_recursively)
    /\ unique_subdomains = {<<>>, target_domain}
    /\ <<"b">> \in newly_found_subdomains
    /\ Len(log) = 4

\* C7: a tool of the initial discovery whose binary exists and which fails
\* (nonzero exit, or no output file) does not end the function: the loop goes
\* on to the next tool or to the step that adds the target domain.
C7_OtherFailureContinues ==
    [][(/\ pc = "InitialResult"
        /\ ~binary_missing
        /\ ~(returncode = 0 /\ Exists(fs, OutputFile(target_domain, ToolNames[tool_idx]))))
          => pc' \in {"InitialRun", "AddTarget"}]_vars

OperationStates ==
    {"InitialRun", "InitialResult", "AddTarget", "Recursive", "RecursiveAmass",
     "ProbeRun", "ProbeResult", "Screenshot", "Eyewitness"}

\* C8: the driver moves between AwaitingDomain, MenuLoop and Exited only as
\* follows.  An empty domain leads from AwaitingDomain to Exited with no
\* command run and no file changed, any other domain to MenuLoop.  Exited is
\* entered from MenuLoop only by choice 3.  An operation started by choice 1
\* or 2 never leaves for any state but MenuLoop, whatever its outcome, and
\* the target domain never changes after it was read.  A choice other than
\* 1, 2 and 3 stays in MenuLoop, runs no command and changes no file and no
\* result.
C8_MenuStateMachine ==
    [][/\ (pc = "AwaitingDomain" =>
              /\ pc' = IF target_domain' = <<>> THEN "Exited" ELSE "MenuLoop"
              /\ fs' = fs /\ log' = log)
       /\ (pc' = "Exited" =>
              \/ pc = "AwaitingDomain"
              \/ pc = "MenuLoop" /\ choice' = <<"3">>)
       /\ (pc = "MenuLoop" =>
              /\ choice' = <<"3">> => pc' = "Exited"
              /\ choice' = <<"1">> => pc' = "InitialRun"
              /\ choice' = <<"2">> => pc' = "Screenshot"
              /\ choice' \notin {<<"1">>, <<"2">>, <<"3">>} =>
                    /\ pc' = "MenuLoop"
                    /\ log' = log
                    /\ live_subdomains_file' = live_subdomains_file
              /\ fs' = fs)
       /\ (pc \in OperationStates => pc' \in OperationStates \cup {"MenuLoop"})
       /\ (pc # "AwaitingDomain" => target_domain' = target_domain)]_vars

\* An invalid choice was reported after an operation, and the driver is back
\* in the menu loop with the target domain it read.
C8_Witness ==
    /\ pc = "MenuLoop"
    /\ last_msg = "invalid_choice"
    /\ choice = <<"x">>
    /\ ops > 1
    /\ target_domain = <<"a">>
    /\ Len(log) > 0

\* C9: when the input file of the screenshot step (typed, or the default
\* live file) does not exist, the step reports it, runs no command, changes
\* no file and returns to the menu loop.
C9_MissingInputRunsNothing ==
    [][pc = "Screenshot" /\ ~Exists(fs, input_file') =>
          /\ pc' = "MenuLoop"
          /\ last_msg' = "input_not_found"
          /\ log' = log
          /\ fs' = fs]_vars

\* The default live file was asked for and is not there.
C9_Witness ==
    /\ pc = "MenuLoop"
    /\ last_msg = "input_not_found"
    /\ input_file = LiveFile(target_domain)
    /\ ~Exists(fs, input_file)
    /\ log = <<>>

\* C10: in the menu loop no intermediate file is on disk.
C10_NoIntermediateLeft ==
    pc = "MenuLoop" => \A p \in Intermediates : ~Exists(fs, p)

====
